---------------------------- MODULE Spec2Model ----------------------------
(***************************************************************************)
(* A model of vrenv (src/src/lib.rs): fetching a secret and writing it as  *)
(* an environment file.                                                    *)
(*                                                                         *)
(* Text is a sequence of one-character strings, so that splitting,         *)
(* upper-casing, replacing and byte-wise ordering are computed and not     *)
(* assumed.  A JSON value (serde_json::Value) is a record tagged by t.     *)
(***************************************************************************)
EXTENDS Integers, Sequences, FiniteSets, TLC

VARIABLES
    config,        \* EnvFileConfig: secret_arn, output_dir, file_name
    umask,         \* the process's file-creation mask (set of permission bits)
    isRoot,        \* whether the process runs with CAP_DAC_OVERRIDE / CAP_FOWNER
    dir,           \* the destination's parent directory
    file,          \* the destination file
    initial,       \* the filesystem when the invocations started
    pc,            \* per invocation: the next step
    secret_value,  \* per invocation: the fetched payload
    env_content,   \* per invocation: the rendered text
    result,        \* per invocation: the Result returned
    steps,         \* per invocation: the steps attempted so far, in order
    writes,        \* the invocations whose write(2) completed, in order
    input,         \* argument of the pure function under check
    output,        \* <<>> before the call, <<value>> after it
    again          \* <<>>, or <<value>> of a second call on the same mapping

vars == <<config, umask, isRoot, dir, file, initial, pc, secret_value,
          env_content, result, steps, writes, input, output, again>>

fsVars == <<config, umask, isRoot, dir, file, initial, pc, secret_value,
            env_content, result, steps, writes>>

(***************************************************************************)
(* Bounds of the model.                                                    *)
(***************************************************************************)
MaxNameLen == 3    \* longest generated name segment of an identifier
MaxPairs == 2      \* most key-value pairs of a generated JSON object

(***************************************************************************)
(* Text.                                                                   *)
(***************************************************************************)
\* The characters of the model in ascending byte order (Rust compares str
\* byte-wise).
CharOrder ==
    <<"\n", " ", "\"", ",", "-", "/",
      "0", "1", "2", "3", "4", "5", "6", "7", "8", "9", ":", "=",
      "A", "B", "C", "D", "E", "F", "G", "H", "I", "J", "K", "L", "M",
      "N", "O", "P", "Q", "R", "S", "T", "U", "V", "W", "X", "Y", "Z",
      "[", "\\", "]", "_",
      "a", "b", "c", "d", "e", "f", "g", "h", "i", "j", "k", "l", "m",
      "n", "o", "p", "q", "r", "s", "t", "u", "v", "w", "x", "y", "z",
      "{", "}">>

Ord(c) == CHOOSE i \in 1..Len(CharOrder) : CharOrder[i] = c

Lower == <<"a", "b", "c", "d", "e", "f", "g", "h", "i", "j", "k", "l", "m",
           "n", "o", "p", "q", "r", "s", "t", "u", "v", "w", "x", "y", "z">>

Upper == <<"A", "B", "C", "D", "E", "F", "G", "H", "I", "J", "K", "L", "M",
           "N", "O", "P", "Q", "R", "S", "T", "U", "V", "W", "X", "Y", "Z">>

Digits == <<"0", "1", "2", "3", "4", "5", "6", "7", "8", "9">>

\* char::to_uppercase on the model's alphabet
UpperChar(c) ==
    IF \E i \in 1..Len(Lower) : Lower[i] = c
    THEN Upper[CHOOSE i \in 1..Len(Lower) : Lower[i] = c]
    ELSE c

\* str::to_uppercase
to_uppercase(s) == [i \in 1..Len(s) |-> UpperChar(s[i])]

\* str::replace(['-', ' '], "_")
replace(s) == [i \in 1..Len(s) |-> IF s[i] \in {"-", " "} THEN "_" ELSE s[i]]

\* Ord for str: byte-wise lexicographic, a proper prefix first
StrLess(s, t) ==
    \E i \in 1..(Len(t)) :
        /\ \A j \in 1..(i - 1) : j <= Len(s) /\ s[j] = t[j]
        /\ \/ i = Len(s) + 1
           \/ i <= Len(s) /\ Ord(s[i]) < Ord(t[i])

StrLeq(s, t) == s = t \/ StrLess(s, t)

Contains(s, c) == \E i \in 1..Len(s) : s[i] = c

IndexOf(s, c) == CHOOSE i \in 1..Len(s) : s[i] = c /\ \A j \in 1..(i - 1) : s[j] # c

RECURSIVE split(_, _)
\* str::split(c), collected: the fields between the occurrences of c; never empty
split(s, c) ==
    IF ~Contains(s, c) THEN <<s>>
    ELSE <<SubSeq(s, 1, IndexOf(s, c) - 1)>>
            \o split(SubSeq(s, IndexOf(s, c) + 1, Len(s)), c)

RECURSIVE join(_, _)
\* [String]::join(sep)
join(ss, sep) ==
    IF ss = <<>> THEN <<>>
    ELSE IF Len(ss) = 1 THEN ss[1]
    ELSE ss[1] \o sep \o join(Tail(ss), sep)

RECURSIVE NatToString(_)
NatToString(n) ==
    IF n < 10 THEN <<Digits[n + 1]>>
    ELSE NatToString(n \div 10) \o <<Digits[(n % 10) + 1]>>

\* i64::to_string
IntToString(n) == IF n < 0 THEN <<"-">> \o NatToString(0 - n) ELSE NatToString(n)

\* All texts over alphabet A of length at most n
TextsUpTo(A, n) == UNION {[1..k -> A] : k \in 0..n}

DefaultName == <<"s", "e", "c", "r", "e", "t">>

(***************************************************************************)
(* extract_secret_name_from_arn                                            *)
(***************************************************************************)
\* Iterator::nth(6) of the colon-delimited fields
NameWithSuffix(arn) ==
    LET fields == split(arn, ":")
    IN  IF Len(fields) >= 7 THEN <<fields[7]>> ELSE <<>>

\* .and_then(|n| n.split('-').next()).unwrap_or("secret")
FirstToken(arn) ==
    IF NameWithSuffix(arn) = <<>> THEN DefaultName
    ELSE split(NameWithSuffix(arn)[1], "-")[1]

extract_secret_name_from_arn(arn) ==
    LET parts == split(FirstToken(arn), "/")
    IN  parts[Len(parts)]


(***************************************************************************)
(* serde_json::Value                                                       *)
(***************************************************************************)
JStr(s) == [t |-> "str", s |-> s, n |-> 0, b |-> FALSE, items |-> <<>>]
JNum(n) == [t |-> "num", s |-> <<>>, n |-> n, b |-> FALSE, items |-> <<>>]
JBool(b) == [t |-> "bool", s |-> <<>>, n |-> 0, b |-> b, items |-> <<>>]
JNull == [t |-> "null", s |-> <<>>, n |-> 0, b |-> FALSE, items |-> <<>>]
\* items: the elements
JArr(items) == [t |-> "arr", s |-> <<>>, n |-> 0, b |-> FALSE, items |-> items]
\* items: the entries [key, val] in the map's iteration order, keys distinct
JObj(pairs) == [t |-> "obj", s |-> <<>>, n |-> 0, b |-> FALSE, items |-> pairs]

Pair(k, v) == [key |-> k, val |-> v]

\* bool::to_string
BoolToString(b) == IF b THEN <<"t", "r", "u", "e">> ELSE <<"f", "a", "l", "s", "e">>

RECURSIVE concat(_)
concat(ss) == IF ss = <<>> THEN <<>> ELSE ss[1] \o concat(Tail(ss))

\* serde_json's string escaping, on the model's alphabet
EscapeChar(c) ==
    CASE c = "\"" -> <<"\\", "\"">>
      [] c = "\\" -> <<"\\", "\\">>
      [] c = "\n" -> <<"\\", "n">>
      [] OTHER -> <<c>>

Quoted(s) == <<"\"">> \o concat([i \in 1..Len(s) |-> EscapeChar(s[i])]) \o <<"\"">>

RECURSIVE to_string(_)
\* serde_json::to_string: the compact one-line serialization
to_string(v) ==
    CASE v.t = "str" -> Quoted(v.s)
      [] v.t = "num" -> IntToString(v.n)
      [] v.t = "bool" -> BoolToString(v.b)
      [] v.t = "null" -> <<"n", "u", "l", "l">>
      [] v.t = "arr" ->
            <<"[">> \o join([i \in 1..Len(v.items) |-> to_string(v.items[i])], <<",">>)
                \o <<"]">>
      [] v.t = "obj" ->
            <<"{">> \o join([i \in 1..Len(v.items) |->
                                Quoted(v.items[i].key) \o <<":">>
                                    \o to_string(v.items[i].val)], <<",">>)
                \o <<"}">>

(***************************************************************************)
(* json_to_env_format                                                      *)
(***************************************************************************)
Ok(v) == [ok |-> TRUE, val |-> v, err |-> "none"]
Err(e) == [ok |-> FALSE, val |-> <<>>, err |-> e]

\* a key transform that forgets the space
env_key_hyphen_only(key) ==
    [i \in 1..Len(key) |-> IF key[i] = "-" THEN "_" ELSE UpperChar(key[i])]

env_key(key) == replace(to_uppercase(key))

env_value(value) ==
    CASE value.t = "str" -> value.s
      [] value.t = "num" -> IntToString(value.n)
      [] value.t = "bool" -> BoolToString(value.b)
      [] value.t = "null" -> <<>>
      [] OTHER -> to_string(value)

\* the loop over the map: one formatted entry per (key, value)
env_lines(map) ==
    [i \in 1..Len(map) |-> env_key(map[i].key) \o <<"=">> \o env_value(map[i].val)]

RECURSIVE insert(_, _)
insert(sorted, x) ==
    IF sorted = <<>> THEN <<x>>
    ELSE IF StrLeq(sorted[Len(sorted)], x) THEN Append(sorted, x)
    ELSE Append(insert(SubSeq(sorted, 1, Len(sorted) - 1), x), sorted[Len(sorted)])

RECURSIVE sort(_)
\* Vec<String>::sort: ascending, stable
sort(lines) ==
    IF lines = <<>> THEN <<>>
    ELSE insert(sort(SubSeq(lines, 1, Len(lines) - 1)), lines[Len(lines)])

\* a transformation that falls back to one opaque line for a non-object
json_to_env_format_lenient(json_value) ==
    IF json_value.t = "obj"
    THEN Ok(join(sort(env_lines(json_value.items)), <<"\n">>) \o <<"\n">>)
    ELSE Ok(<<"S", "E", "C", "R", "E", "T", "_", "V", "A", "L", "U", "E", "=">>
                \o to_string(json_value) \o <<"\n">>)

json_to_env_format(json_value) ==
    IF json_value.t = "obj"
    THEN Ok(join(sort(env_lines(json_value.items)), <<"\n">>) \o <<"\n">>)
    ELSE Err("InvalidSecretFormat")

(***************************************************************************)
(* The filesystem and the invocations (used by Spec and SpecConcurrent;    *)
(* the specifications of the pure functions leave them idle).              *)
(***************************************************************************)
NoFile == [exists |-> FALSE, content |-> <<>>, mode |-> {}, owner |-> "self"]

NoInvocation ==
    /\ config = [secret_arn |-> <<>>, output_dir |-> <<>>, file_name |-> <<>>]
    /\ umask = {}
    /\ isRoot = FALSE
    /\ dir = "present"
    /\ file = NoFile
    /\ initial = [dir |-> "present", file |-> NoFile]
    /\ pc = <<>>
    /\ secret_value = <<>>
    /\ env_content = <<>>
    /\ result = <<>>
    /\ steps = <<>>
    /\ writes = <<>>

(***************************************************************************)
(* SpecArn: extract_secret_name_from_arn applied to generated identifiers. *)
(***************************************************************************)
\* the first six fields of an AWS Secrets Manager ARN
ArnFields ==
    << <<"a", "r", "n">>, <<"a", "w", "s">>,
       <<"s", "e", "c", "r", "e", "t", "s", "m", "a", "n", "a", "g", "e", "r">>,
       <<"u", "s", "-", "w", "e", "s", "t", "-", "2">>,
       <<"1", "2", "3", "4", "5", "6", "7", "8", "9", "0", "1", "2">>,
       <<"s", "e", "c", "r", "e", "t">> >>

NameAlphabet == {"a", "B", "-", "/", ":"}

\* the name segments of the repository's own test
TestNames ==
    { <<"M", "y", "S", "e", "c", "r", "e", "t", "-", "A", "b", "C", "d", "E", "f">>,
      <<"/", "m", "y", "/", "c", "u", "s", "t", "o", "m", "/", "p", "a", "t", "h", "/",
        "s", "e", "c", "r", "e", "t", "-", "A", "b", "C", "d", "E", "f">>,
      <<"p", "r", "o", "d", "/", "m", "y", "-", "a", "p", "p", "/", "d", "b", "-",
        "A", "b", "C", "d", "E", "f">> }

\* identifiers of 1 to 7 fields and more (a name segment may hold colons)
ArnInputs ==
    { join(SubSeq(ArnFields, 1, k) \o <<name>>, <<":">>) :
        k \in 0..6, name \in TextsUpTo(NameAlphabet, MaxNameLen) \cup TestNames }

InitArn ==
    /\ NoInvocation
    /\ input \in ArnInputs
    /\ output = <<>>
    /\ again = <<>>

ExtractName ==
    /\ output = <<>>
    /\ output' = <<extract_secret_name_from_arn(input)>>
    /\ UNCHANGED <<input, again>>
    /\ UNCHANGED fsVars

NextArn == ExtractName

SpecArn == InitArn /\ [][NextArn]_vars

(***************************************************************************)
(* SpecJson: json_to_env_format applied to generated JSON objects.         *)
(***************************************************************************)
GenKeys ==
    { <<"a">>, <<"B">>, <<"a", "-", "b">>, <<"a", " ", "b">>, <<"k", "=">> }

GenValues ==
    { JStr(<<"x">>), JStr(<<>>), JStr(<<"z", "\n", "A">>), JStr(<<"p", "=", "q">>),
      JNum(8080), JNum(-7), JBool(TRUE), JNull,
      JArr(<<JNum(1), JStr(<<"a", "\"", "b">>)>>),
      JObj(<<Pair(<<"k">>, JBool(FALSE))>>) }

DistinctKeys(pairs) ==
    \A i, j \in 1..Len(pairs) : pairs[i].key = pairs[j].key => i = j

GenPairs == {Pair(k, v) : k \in GenKeys, v \in GenValues}

\* {"port": 8080, "debug": true, "timeout": null}, of the repository's test
TestObject ==
    JObj(<<Pair(<<"p", "o", "r", "t">>, JNum(8080)),
           Pair(<<"d", "e", "b", "u", "g">>, JBool(TRUE)),
           Pair(<<"t", "i", "m", "e", "o", "u", "t">>, JNull)>>)

JsonObjects ==
    {JObj(ps) : ps \in {q \in UNION {[1..k -> GenPairs] : k \in 0..MaxPairs} :
                            DistinctKeys(q)}}
        \cup {TestObject}

\* the same entries in another iteration order
Reordered(v) ==
    {JObj([i \in 1..Len(v.items) |-> v.items[f[i]]]) :
        f \in {g \in [1..Len(v.items) -> 1..Len(v.items)] :
                    \A i, j \in 1..Len(v.items) : g[i] = g[j] => i = j}}

InitJson ==
    /\ NoInvocation
    /\ input \in JsonObjects
    /\ output = <<>>
    /\ again = <<>>

Render ==
    /\ output = <<>>
    /\ output' = <<json_to_env_format(input)>>
    /\ UNCHANGED <<input, again>>
    /\ UNCHANGED fsVars

\* the transformation run again on the same mapping, whatever order the map
\* iterates in
RenderAgain ==
    /\ output # <<>>
    /\ again = <<>>
    /\ \E v \in Reordered(input) : again' = <<json_to_env_format(v)>>
    /\ UNCHANGED <<input, output>>
    /\ UNCHANGED fsVars

NextJson == Render \/ RenderAgain

SpecJson == InitJson /\ [][NextJson]_vars

(***************************************************************************)
(* Spec, SpecConcurrent: create_env_file_from_secret against a filesystem. *)
(***************************************************************************)
\* permission bits are named u/g/o + r/w/x
\* "readable by owner and group", 0o640
GroupReadableMode == {"ur", "uw", "gr"}

SecretMode == {"ur", "uw"}                                \* 0o600
CreateMode == {"ur", "uw", "gr", "gw", "or", "ow"}          \* 0o666, File::create

Umasks ==
    { {}, {"gw", "ow"}, {"gw", "or", "ow", "ox"},
      {"gr", "gw", "gx", "or", "ow", "ox"} }               \* 000 022 027 077

OldContent == <<"O", "L", "D", "_", "K", "E", "Y", "=", "o", "l", "d", "v", "a", "l", "\n">>

ExistingFiles ==
    [exists : {TRUE}, content : {OldContent},
     mode : {SecretMode, {"ur", "uw", "gr", "or"}, CreateMode, {"ur", "gr", "or"}},
     owner : {"self", "other"}]

\* the payloads the store may return: serialized JSON values and other text
JsonPayloads ==
    { JObj(<<>>),
      JObj(<<Pair(<<"a">>, JStr(<<"x">>))>>),
      TestObject,
      JObj(<<Pair(<<"k">>, JStr(<<"z", "\n", "A">>))>>),
      JArr(<<JNum(1), JNum(2), JNum(3)>>),
      JStr(<<"s">>), JNum(42), JBool(TRUE), JNull }

OtherPayloads ==
    { <<"n", "o", "t", " ", "j", "s", "o", "n">>,
      <<"a", "\n", "b">>,
      <<"{", "a">>,
      <<>> }

Payloads == {to_string(v) : v \in JsonPayloads} \cup OtherPayloads

\* serde_json::from_str::<Value>, on the payloads of the model
from_str(text) ==
    IF \E v \in JsonPayloads : to_string(v) = text
    THEN [ok |-> TRUE, v |-> CHOOSE v \in JsonPayloads : to_string(v) = text]
    ELSE [ok |-> FALSE, v |-> JNull]

MySecretArn ==
    join(ArnFields \o <<CHOOSE n \in TestNames : n[1] = "M">>, <<":">>)

Configs ==
    [secret_arn : {MySecretArn},
     output_dir : {<<"/", "r", "u", "n">>},
     file_name : {<<>>, <<<<"a", "p", "p">>>>}]          \* None, Some("app")

\* config.file_name.unwrap_or_else(|| extract_secret_name_from_arn(..)), joined
\* to the output directory with the extension .env
env_file_path ==
    LET env_file_name ==
            IF config.file_name = <<>>
            THEN extract_secret_name_from_arn(config.secret_arn)
            ELSE config.file_name[1]
    IN  config.output_dir \o <<"/">> \o env_file_name \o <<".", "e", "n", "v">>

Environment ==
    /\ umask \in Umasks
    /\ isRoot \in BOOLEAN
    /\ dir \in {"present", "missing", "blocked"}
    /\ file \in IF dir = "present" THEN ExistingFiles \cup {NoFile} ELSE {NoFile}
    /\ initial = [dir |-> dir, file |-> file]

Started(n) ==
    /\ pc = [p \in 1..n |-> "fetch"]
    /\ secret_value = [p \in 1..n |-> <<>>]
    /\ env_content = [p \in 1..n |-> <<>>]
    /\ result = [p \in 1..n |-> <<>>]
    /\ steps = [p \in 1..n |-> <<>>]
    /\ writes = <<>>
    /\ input = <<>>
    /\ output = <<>>
    /\ again = <<>>

Init ==
    /\ config \in Configs
    /\ Environment
    /\ Started(1)

\* two invocations for the same destination
InitConcurrent ==
    /\ config \in {c \in Configs : c.file_name = <<>>}
    /\ Environment
    /\ umask \in {{}, {"gw", "ow"}}
    /\ file.owner = "self"
    /\ Started(2)

Goto(p, next, step) ==
    /\ pc' = [pc EXCEPT ![p] = next]
    /\ steps' = IF step = "" THEN steps ELSE [steps EXCEPT ![p] = Append(@, step)]

\* an error dropped: the invocation ends and reports success
FailIgnored(p, e) ==
    /\ pc' = [pc EXCEPT ![p] = "done"]
    /\ result' = [result EXCEPT ![p] = <<Ok(env_file_path)>>]

\* the ? operator: an error ends the invocation and is what it returns
Fail(p, e) ==
    /\ pc' = [pc EXCEPT ![p] = "done"]
    /\ result' = [result EXCEPT ![p] = <<Err(e)>>]

\* self.fetch_secret(&config.secret_arn).await?
Fetch(p) ==
    /\ pc[p] = "fetch"
    /\ \/ /\ \E payload \in Payloads :
                secret_value' = [secret_value EXCEPT ![p] = payload]
          /\ Goto(p, "create_dir", "fetch")
          /\ UNCHANGED result
       \/ /\ Fail(p, "FetchError")
          /\ steps' = [steps EXCEPT ![p] = Append(@, "fetch")]
          /\ UNCHANGED secret_value
    /\ UNCHANGED <<config, umask, isRoot, dir, file, initial, env_content, writes>>
    /\ UNCHANGED <<input, output, again>>

\* fs::create_dir_all(parent).context("Failed to create output directory")?
CreateDir(p) ==
    /\ pc[p] = "create_dir"
    /\ IF dir = "blocked"
       THEN /\ Fail(p, "DirectoryCreationError")
            /\ steps' = [steps EXCEPT ![p] = Append(@, "create_dir")]
            /\ UNCHANGED dir
       ELSE /\ dir' = "present"
            /\ Goto(p, "render", "create_dir")
            /\ UNCHANGED result
    /\ UNCHANGED <<config, umask, isRoot, file, initial, secret_value, env_content, writes>>
    /\ UNCHANGED <<input, output, again>>

\* the text to write: the JSON rendering, or SECRET_VALUE=<payload>\n
Rendered(payload) ==
    IF from_str(payload).ok
    THEN json_to_env_format(from_str(payload).v)
    ELSE Ok(<<"S", "E", "C", "R", "E", "T", "_", "V", "A", "L", "U", "E", "=">>
                \o payload \o <<"\n">>)

RenderEnv(p) ==
    /\ pc[p] = "render"
    /\ IF Rendered(secret_value[p]).ok
       THEN /\ env_content' = [env_content EXCEPT ![p] = Rendered(secret_value[p]).val]
            /\ Goto(p, "open", "render")
            /\ UNCHANGED result
       ELSE /\ Fail(p, Rendered(secret_value[p]).err)
            /\ steps' = [steps EXCEPT ![p] = Append(@, "render")]
            /\ UNCHANGED env_content
    /\ UNCHANGED <<config, umask, isRoot, dir, file, initial, secret_value, writes>>
    /\ UNCHANGED <<input, output, again>>

MayWrite == isRoot \/ (IF file.owner = "self" THEN "uw" ELSE "ow") \in file.mode

\* fs::write, first half: File::create = open(O_WRONLY | O_CREAT | O_TRUNC, 0o666)
OpenFile(p) ==
    /\ pc[p] = "open"
    /\ steps' = [steps EXCEPT ![p] = Append(@, "write")]
    /\ IF ~file.exists
       THEN /\ file' = [exists |-> TRUE, content |-> <<>>,
                        mode |-> CreateMode \ umask, owner |-> "self"]
            /\ pc' = [pc EXCEPT ![p] = "write"]
            /\ UNCHANGED result
       ELSE IF MayWrite
       THEN /\ file' = [file EXCEPT !.content = <<>>]
            /\ pc' = [pc EXCEPT ![p] = "write"]
            /\ UNCHANGED result
       ELSE /\ Fail(p, "WriteError")
            /\ UNCHANGED file
    /\ UNCHANGED <<config, umask, isRoot, dir, initial, secret_value, env_content, writes>>
    /\ UNCHANGED <<input, output, again>>

\* fs::write, second half: write_all at the descriptor's own offset 0, which
\* replaces the first bytes of the file and keeps what lies beyond them
WriteAll(p) ==
    /\ pc[p] = "write"
    /\ \/ /\ file' = [file EXCEPT !.content =
                        env_content[p] \o SubSeq(@, Len(env_content[p]) + 1, Len(@))]
          /\ writes' = Append(writes, p)
          /\ Goto(p, "metadata", "")
          /\ UNCHANGED result
       \/ /\ Fail(p, "WriteError")
          /\ UNCHANGED <<file, writes, steps>>
    /\ UNCHANGED <<config, umask, isRoot, dir, initial, secret_value, env_content>>
    /\ UNCHANGED <<input, output, again>>

\* fs::metadata(file_path)?.permissions()
Metadata(p) ==
    /\ pc[p] = "metadata"
    /\ file.exists
    /\ Goto(p, "set_permissions", "set_permissions")
    /\ UNCHANGED <<config, umask, isRoot, dir, file, initial, secret_value,
                   env_content, result, writes>>
    /\ UNCHANGED <<input, output, again>>

\* perms.set_mode(0o600); fs::set_permissions(file_path, perms)?; Ok(path)
SetPermissions(p) ==
    /\ pc[p] = "set_permissions"
    /\ IF isRoot \/ file.owner = "self"
       THEN /\ file' = [file EXCEPT !.mode = SecretMode]
            /\ pc' = [pc EXCEPT ![p] = "done"]
            /\ result' = [result EXCEPT ![p] = <<Ok(env_file_path)>>]
       ELSE /\ Fail(p, "PermissionError")
            /\ UNCHANGED file
    /\ UNCHANGED <<config, umask, isRoot, dir, initial, secret_value, env_content,
                   steps, writes>>
    /\ UNCHANGED <<input, output, again>>

Next ==
    \/ \E p \in DOMAIN pc : Fetch(p)
    \/ \E p \in DOMAIN pc : CreateDir(p)
    \/ \E p \in DOMAIN pc : RenderEnv(p)
    \/ \E p \in DOMAIN pc : OpenFile(p)
    \/ \E p \in DOMAIN pc : WriteAll(p)
    \/ \E p \in DOMAIN pc : Metadata(p)
    \/ \E p \in DOMAIN pc : SetPermissions(p)

Spec == Init /\ [][Next]_vars

SpecConcurrent == InitConcurrent /\ [][Next]_vars

(***************************************************************************)
(* Properties of extract_secret_name_from_arn (SpecArn).                   *)
(***************************************************************************)
Last(seq) == seq[Len(seq)]

\* C5, as the claim words it: strip the path prefix of field 6, then cut at
\* the first '-'
StemAsClaimed(arn) ==
    LET fields == split(arn, ":")
    IN  IF Len(fields) < 7 THEN DefaultName
        ELSE split(Last(split(fields[7], "/")), "-")[1]

\* C5: for an identifier of 7 colon-delimited fields the result is the text
\* before the first '-' of field 6 once the '/'-delimited path prefix of that
\* field is stripped, and for fewer than 7 fields it is "secret".
C5_StemOfStrippedField ==
    (output # <<>> /\ Len(split(input, ":")) <= 7)
        => output[1] = StemAsClaimed(input)

(***************************************************************************)
(* Properties of json_to_env_format (SpecJson).                            *)
(***************************************************************************)
Bijections(n) ==
    {f \in [1..n -> 1..n] : \A i, j \in 1..n : f[i] = f[j] => i = j}

\* the entry the claim gives a pair: KEY=value
EntryAsClaimed(pair) ==
    [i \in 1..Len(pair.key) |->
        IF pair.key[i] \in {"-", " "} THEN "_" ELSE UpperChar(pair.key[i])]
    \o <<"=">>
    \o (CASE pair.val.t = "str" -> pair.val.s
          [] pair.val.t = "num" -> IntToString(pair.val.n)
          [] pair.val.t = "bool" ->
                (IF pair.val.b THEN <<"t", "r", "u", "e">>
                 ELSE <<"f", "a", "l", "s", "e">>)
          [] pair.val.t = "null" -> <<>>
          [] OTHER -> to_string(pair.val))

Ascending(lines) == \A i \in 1..(Len(lines) - 1) : StrLeq(lines[i], lines[i + 1])

\* C6: the rendering of a JSON object is one entry KEY=value per pair (key
\* upper-cased with '-' and ' ' replaced by '_', value by its type), the
\* entries in ascending order, joined with newlines, one newline after them.
C6_OneSortedEntryPerPair ==
    output # <<>> =>
        /\ output[1].ok
        /\ \E f \in Bijections(Len(input.items)) :
            LET entries == [i \in 1..Len(input.items) |->
                                EntryAsClaimed(input.items[f[i]])]
            IN  /\ Ascending(entries)
                /\ output[1].val = join(entries, <<"\n">>) \o <<"\n">>

\* C6's case: the object of the repository's test rendered as
\* DEBUG=true, PORT=8080, TIMEOUT= in that order
C6_Witness ==
    /\ input = TestObject
    /\ output # <<>>
    /\ output[1].val =
        <<"D", "E", "B", "U", "G", "=", "t", "r", "u", "e", "\n",
          "P", "O", "R", "T", "=", "8", "0", "8", "0", "\n",
          "T", "I", "M", "E", "O", "U", "T", "=", "\n">>

\* the lines of a text: the pieces its newlines end
TextLines(text) ==
    LET pieces == split(text, "\n")
    IN  IF Last(pieces) = <<>> THEN SubSeq(pieces, 1, Len(pieces) - 1) ELSE pieces

\* a line re-parsed on '=': <<key, value>>, cut at the first '='
ParsedLine(line) ==
    IF Contains(line, "=")
    THEN <<SubSeq(line, 1, IndexOf(line, "=") - 1),
           SubSeq(line, IndexOf(line, "=") + 1, Len(line))>>
    ELSE <<line, <<>>>>

Scalar(v) == v.t \in {"str", "num", "bool", "null"}

\* C7: for an object of scalar values, the output re-parsed line by line on
\* '=' is the input mapping with keys normalized and values stringified:
\* every pair recovered, none lost, merged or added.
C7_RoundTrip ==
    (output # <<>> /\ \A i \in 1..Len(input.items) : Scalar(input.items[i].val))
        => LET lines == SelectSeq(TextLines(output[1].val), LAMBDA l : l # <<>>)
               recovered == {ParsedLine(lines[i]) : i \in 1..Len(lines)}
               expected == {<<env_key(input.items[i].key), env_value(input.items[i].val)>> :
                                i \in 1..Len(input.items)}
           IN  /\ recovered = expected
               /\ Len(lines) = Len(input.items)
               /\ Cardinality(recovered) = Len(input.items)
               /\ \A x, y \in recovered : x[1] = y[1] => x = y

\* C8: the lines of the output text are in ascending order, and a second run
\* on the same input gives the same text.
C8_LinesAscendingAndStable ==
    /\ output # <<>> => Ascending(TextLines(output[1].val))
    /\ (output # <<>> /\ again # <<>>) => again = output

(***************************************************************************)
(* Properties of create_env_file_from_secret (Spec, SpecConcurrent).       *)
(***************************************************************************)
Returned(p) == pc[p] = "done" /\ result[p] # <<>>

Succeeded(p) == Returned(p) /\ result[p][1].ok

FailedWith(p, e) ==
    Returned(p) /\ result[p] = <<[ok |-> FALSE, val |-> <<>>, err |-> e]>>

\* C1: from the write of the secret until the invocation returns, the
\* destination file is never readable by group or others.
C1_NeverReadableByOthers ==
    \A p \in DOMAIN pc :
        (pc[p] \in {"metadata", "set_permissions"} /\ file.content = env_content[p])
            => file.mode \cap {"gr", "or"} = {}

NonObjectJson(payload) == from_str(payload).ok /\ from_str(payload).v.t # "obj"

\* C3, as the claim words it: a payload that is JSON but no object always
\* ends in the invalid-secret-format error, the file untouched.
C3_AlwaysInvalidFormat ==
    \A p \in DOMAIN pc :
        (NonObjectJson(secret_value[p]) /\ Returned(p))
            => FailedWith(p, "InvalidSecretFormat") /\ file = initial.file

\* C3, amended: a payload that is JSON but no object is never rendered or
\* written (the file is neither created nor modified) and the invocation
\* returns an error: the invalid-secret-format error when the parent
\* directory exists or could be created, the directory-creation error when
\* it could not.
C3_NonObjectRejected ==
    \A p \in DOMAIN pc :
        NonObjectJson(secret_value[p])
            => /\ file = initial.file
               /\ env_content[p] = <<>>
               /\ pc[p] \in {"create_dir", "render", "done"}
               /\ Returned(p) =>
                    IF initial.dir = "blocked"
                    THEN FailedWith(p, "DirectoryCreationError")
                    ELSE FailedWith(p, "InvalidSecretFormat")

\* C3's case: the array [1,2,3] rejected after the directory was created
C3_Witness ==
    \E p \in DOMAIN pc :
        /\ secret_value[p] = <<"[", "1", ",", "2", ",", "3", "]">>
        /\ FailedWith(p, "InvalidSecretFormat")
        /\ initial.dir = "missing"
        /\ dir = "present"
        /\ ~file.exists

NewlineCount(text) == Cardinality({i \in 1..Len(text) : text[i] = "\n"})

\* C4: for a payload that is not JSON the written file is exactly one line,
\* SECRET_VALUE= followed by the payload and a single trailing newline.
C4_OneOpaqueLine ==
    \A p \in DOMAIN pc :
        (Succeeded(p) /\ ~from_str(secret_value[p]).ok)
            => /\ file.content =
                    <<"S", "E", "C", "R", "E", "T", "_", "V", "A", "L", "U", "E", "=">>
                        \o secret_value[p] \o <<"\n">>
               /\ NewlineCount(file.content) = 1

StepOrder == <<"fetch", "create_dir", "render", "write", "set_permissions">>

\* the step an error comes from
StepOf(e) ==
    CASE e = "FetchError" -> 1
      [] e = "DirectoryCreationError" -> 2
      [] e = "InvalidSecretFormat" -> 3
      [] e = "WriteError" -> 4
      [] e = "PermissionError" -> 5

\* C9: the steps fetch, create-directory, render, write, set-permissions are
\* attempted at most once each and in that order; the first failure is
\* terminal; success is returned only after all five; a fetch failure
\* changes nothing on the filesystem; a permission failure after the write
\* is returned as an error.
C9_StepsOnceInOrder ==
    \A p \in DOMAIN pc :
        /\ Len(steps[p]) <= Len(StepOrder)
        /\ \A i \in 1..Len(steps[p]) : steps[p][i] = StepOrder[i]
        /\ result[p] # <<>> => pc[p] = "done"
        /\ pc[p] = "done" => result[p] # <<>>
        /\ Succeeded(p) =>
            /\ steps[p] = StepOrder
            /\ result[p][1].val = env_file_path
            /\ file.content = env_content[p]
            /\ isRoot \/ file.owner = "self"
        /\ (Returned(p) /\ ~result[p][1].ok) =>
            /\ Len(steps[p]) = StepOf(result[p][1].err)
        /\ FailedWith(p, "FetchError") => file = initial.file /\ dir = initial.dir
        /\ (pc[p] = "done" /\ Len(steps[p]) = 5 /\ ~isRoot /\ file.owner # "self")
                => FailedWith(p, "PermissionError")

\* C9's case: the write succeeded, the permission step failed, an error is
\* returned
C9_Witness ==
    \E p \in DOMAIN pc :
        /\ FailedWith(p, "PermissionError")
        /\ steps[p] = StepOrder
        /\ file.content = env_content[p]
        /\ file.content # initial.file.content

\* C10: two concurrent invocations for one destination with different
\* payloads: once both have returned success, the file holds the complete
\* rendering of the payload written last, with mode 0o600.
C10_LastWriterWins ==
    ( /\ \A p \in DOMAIN pc : Succeeded(p)
      /\ Len(writes) = 2
      /\ secret_value[1] # secret_value[2] )
        => /\ file.content = env_content[writes[2]]
           /\ file.mode = {"ur", "uw"}

=============================================================================
